---------------------------- MODULE Spec2Model ----------------------------
(***************************************************************************)
(* Model of ResourceOwner_2.cpp: class Resource (one int), class           *)
(* ResourceOwner (id, name, raw owning Resource pointer) with its special  *)
(* member functions and swap, the free store they allocate from, and the   *)
(* two clients of the class: main() and an arbitrary client that issues    *)
(* any sequence of the public operations.                                  *)
(***************************************************************************)
EXTENDS Integers, FiniteSets, Sequences, TLC

\* ------------------------------------------------------------------ bounds
MaxOwners == 2      \* ResourceOwner objects the arbitrary client uses
MaxAlloc  == 2      \* Resource allocations made over one run

\* --------------------------------------------------------------- constants
Null == 0           \* nullptr

DriverOwners == 3   \* owner1, owner2 and owner3 of main()

ClientSlots == 1..MaxOwners
Slots  == 1..(IF MaxOwners > DriverOwners THEN MaxOwners ELSE DriverOwners)
Addrs  == 1..MaxAlloc
Ids    == {1, 2}
Names  == {"", "id1"}
Values == {101, 202}

VARIABLES
    owners,   \* slot -> ResourceOwner object (live flag, m_id, m_name, m_resource)
    heap,     \* address -> Resource cell of the free store
    last,     \* the operation that produced the current state
    pc        \* position of main(), or "client" for the arbitrary client

vars == <<owners, heap, last, pc>>

\* ------------------------------------------------------------- free store
\* A cell is never allocated (alloc = FALSE), holds a live Resource (rel = 0)
\* or held one that was deleted rel times (rel = 2: more than once).
NoCell == [alloc |-> FALSE, i_ |-> 0, rel |-> 0]

IsLive(h, p) == p # Null /\ h[p].alloc /\ h[p].rel = 0

HasFresh(h) == \E a \in DOMAIN h : ~h[a].alloc

\* Addresses are handed out in increasing order and never reused, so that a
\* dangling pointer stays distinguishable from a live one.
Fresh(h) == CHOOSE a \in DOMAIN h : ~h[a].alloc /\ \A b \in DOMAIN h : b < a => h[b].alloc

\* new Resource(i), called by the owner's client.
Resource_ctor(h, i) == [h EXCEPT ![Fresh(h)] = [alloc |-> TRUE, i_ |-> i, rel |-> 0]]

\* new Resource{ *other }: the Resource copy constructor on a fresh cell.
Resource_copy_ctor(h, other) == [h EXCEPT ![Fresh(h)] = [alloc |-> TRUE, i_ |-> h[other].i_, rel |-> 0]]

\* Mutant: the Resource copy assignment copies nothing.
Resource_copy_assign_NoCopy(h, p, other) == h

\* *p = *other: Resource copy assignment.
Resource_copy_assign(h, p, other) == [h EXCEPT ![p].i_ = h[other].i_]

Resource_get(h, p) == h[p].i_

Resource_set(h, p, i) == [h EXCEPT ![p].i_ = i]

\* delete p: a no-op on nullptr, otherwise the cell is released once more.
Delete(h, p) ==
    IF p = Null THEN h
    ELSE [h EXCEPT ![p] = [alloc |-> @.alloc, i_ |-> 0, rel |-> IF @.rel < 2 THEN @.rel + 1 ELSE 2]]

\* ---------------------------------------------------------- ResourceOwner
\* Storage that holds no ResourceOwner object.
NoOwner == [live |-> FALSE, m_id |-> 0, m_name |-> "", m_resource |-> Null]

\* The operations are functions of s = [o |-> owners, h |-> heap].

ResourceOwner_ctor(s, this, id, name, resource) ==
    [o |-> [s.o EXCEPT ![this] = [live |-> TRUE, m_id |-> id, m_name |-> name, m_resource |-> resource]],
     h |-> s.h]

ResourceOwner_dtor(s, this) ==
    [o |-> [s.o EXCEPT ![this] = NoOwner],
     h |-> Delete(s.h, s.o[this].m_resource)]

\* Mutant: a shallow copy, the new owner shares other's Resource.
ResourceOwner_copy_ctor_Shallow(s, this, other) ==
    [o |-> [s.o EXCEPT ![this] = [live |-> TRUE, m_id |-> s.o[other].m_id, m_name |-> s.o[other].m_name,
                                  m_resource |-> s.o[other].m_resource]],
     h |-> s.h]

\* Copy constructor; the caller has checked that the allocation succeeds.
ResourceOwner_copy_ctor(s, this, other) ==
    LET base == [live |-> TRUE, m_id |-> s.o[other].m_id, m_name |-> s.o[other].m_name, m_resource |-> Null]
    IN  IF s.o[other].m_resource # Null
        THEN [o |-> [s.o EXCEPT ![this] = [base EXCEPT !.m_resource = Fresh(s.h)]],
              h |-> Resource_copy_ctor(s.h, s.o[other].m_resource)]
        ELSE [o |-> [s.o EXCEPT ![this] = base], h |-> s.h]

\* Mutant: the else branch resets the pointer without deleting the Resource.
ResourceOwner_copy_assign_NoDelete(s, this, other, ok) ==
    IF this = other THEN s
    ELSE
      LET o1 == [s.o EXCEPT ![this].m_id = s.o[other].m_id]
          o2 == [o1 EXCEPT ![this].m_name = o1[other].m_name]
      IN  IF o2[this].m_resource # Null /\ o2[other].m_resource # Null
          THEN [o |-> o2, h |-> Resource_copy_assign(s.h, o2[this].m_resource, o2[other].m_resource)]
          ELSE
            LET o3 == [o2 EXCEPT ![this].m_resource = Null]
            IN  IF o3[other].m_resource # Null /\ ok
                THEN [o |-> [o3 EXCEPT ![this].m_resource = Fresh(s.h)],
                      h |-> Resource_copy_ctor(s.h, o3[other].m_resource)]
                ELSE [o |-> o3, h |-> s.h]

\* Mutant: the else branch copies other's pointer instead of its Resource.
ResourceOwner_copy_assign_Shallow(s, this, other, ok) ==
    IF this = other THEN s
    ELSE
      LET o1 == [s.o EXCEPT ![this].m_id = s.o[other].m_id]
          o2 == [o1 EXCEPT ![this].m_name = o1[other].m_name]
      IN  IF o2[this].m_resource # Null /\ o2[other].m_resource # Null
          THEN [o |-> o2, h |-> Resource_copy_assign(s.h, o2[this].m_resource, o2[other].m_resource)]
          ELSE
            LET h1 == Delete(s.h, o2[this].m_resource)
                o3 == [o2 EXCEPT ![this].m_resource = Null]
            IN  IF o3[other].m_resource # Null /\ ok
                THEN [o |-> [o3 EXCEPT ![this].m_resource = o3[other].m_resource], h |-> h1]
                ELSE [o |-> o3, h |-> h1]

\* Mutant: no identity check and no in-place branch: release first, then
\* copy whatever other holds by then.
ResourceOwner_copy_assign_ReleaseFirst(s, this, other, ok) ==
    LET o1 == [s.o EXCEPT ![this].m_id = s.o[other].m_id]
        o2 == [o1 EXCEPT ![this].m_name = o1[other].m_name]
        h1 == Delete(s.h, o2[this].m_resource)
        o3 == [o2 EXCEPT ![this].m_resource = Null]
    IN  IF o3[other].m_resource # Null /\ ok /\ HasFresh(h1)
        THEN [o |-> [o3 EXCEPT ![this].m_resource = Fresh(h1)],
              h |-> Resource_copy_ctor(h1, o3[other].m_resource)]
        ELSE [o |-> o3, h |-> h1]

\* Copy assignment (Solution 1). ok = FALSE: the new-expression throws.
ResourceOwner_copy_assign(s, this, other, ok) ==
    IF this = other THEN s
    ELSE
      LET o1 == [s.o EXCEPT ![this].m_id = s.o[other].m_id]
          o2 == [o1 EXCEPT ![this].m_name = o1[other].m_name]
      IN  IF o2[this].m_resource # Null /\ o2[other].m_resource # Null
          THEN [o |-> o2, h |-> Resource_copy_assign(s.h, o2[this].m_resource, o2[other].m_resource)]
          ELSE
            LET h1 == Delete(s.h, o2[this].m_resource)
                o3 == [o2 EXCEPT ![this].m_resource = Null]
            IN  IF o3[other].m_resource # Null /\ ok
                THEN [o |-> [o3 EXCEPT ![this].m_resource = Fresh(h1)],
                      h |-> Resource_copy_ctor(h1, o3[other].m_resource)]
                ELSE [o |-> o3, h |-> h1]

\* Mutant: the donor's pointer is not reset.
ResourceOwner_move_ctor_KeepsDonor(s, this, other, n) ==
    LET o1 == [s.o EXCEPT ![this] = [live |-> TRUE, m_id |-> s.o[other].m_id,
                                     m_name |-> s.o[other].m_name,
                                     m_resource |-> s.o[other].m_resource]]
        o2 == [o1 EXCEPT ![other].m_name = n]
    IN  [o |-> o2, h |-> s.h]

\* Move constructor. n is the name the moved-from string is left with.
ResourceOwner_move_ctor(s, this, other, n) ==
    LET o1 == [s.o EXCEPT ![this] = [live |-> TRUE, m_id |-> s.o[other].m_id,
                                     m_name |-> s.o[other].m_name,
                                     m_resource |-> s.o[other].m_resource]]
        o2 == [o1 EXCEPT ![other].m_name = n]
        o3 == [o2 EXCEPT ![other].m_resource = Null]
    IN  [o |-> o3, h |-> s.h]

\* Mutant: the Resource this owned is not deleted.
ResourceOwner_move_assign_NoDelete(s, this, other, n) ==
    LET o1 == [s.o EXCEPT ![this].m_id = s.o[other].m_id]
        o2 == [o1 EXCEPT ![this].m_name = o1[other].m_name]
        o3 == [o2 EXCEPT ![other].m_name = n]
        o4 == [o3 EXCEPT ![this].m_resource = o3[other].m_resource]
        o5 == [o4 EXCEPT ![other].m_resource = Null]
    IN  [o |-> o5, h |-> s.h]

\* Mutant: the id is not taken from other.
ResourceOwner_move_assign_NoId(s, this, other, n) ==
    LET h1 == Delete(s.h, s.o[this].m_resource)
        o2 == [s.o EXCEPT ![this].m_name = s.o[other].m_name]
        o3 == [o2 EXCEPT ![other].m_name = n]
        o4 == [o3 EXCEPT ![this].m_resource = o3[other].m_resource]
        o5 == [o4 EXCEPT ![other].m_resource = Null]
    IN  [o |-> o5, h |-> h1]

\* Mutant: other's pointer is not reset.
ResourceOwner_move_assign_KeepsDonor(s, this, other, n) ==
    LET h1 == Delete(s.h, s.o[this].m_resource)
        o1 == [s.o EXCEPT ![this].m_id = s.o[other].m_id]
        o2 == [o1 EXCEPT ![this].m_name = o1[other].m_name]
        o3 == [o2 EXCEPT ![other].m_name = n]
        o4 == [o3 EXCEPT ![this].m_resource = o3[other].m_resource]
    IN  [o |-> o4, h |-> h1]

\* Move assignment (Solution 1), statement by statement, so that this and
\* other may be the same object. n as in the move constructor. In x = move(x)
\* line 144 copies the pointer that line 141 has just deleted onto itself
\* (the value is copied, not dereferenced) and line 145 resets it.
ResourceOwner_move_assign(s, this, other, n) ==
    LET h1 == Delete(s.h, s.o[this].m_resource)
        o1 == [s.o EXCEPT ![this].m_id = s.o[other].m_id]
        o2 == [o1 EXCEPT ![this].m_name = o1[other].m_name]
        o3 == [o2 EXCEPT ![other].m_name = n]
        o4 == [o3 EXCEPT ![this].m_resource = o3[other].m_resource]
        o5 == [o4 EXCEPT ![other].m_resource = Null]
    IN  [o |-> o5, h |-> h1]

\* Mutant: the members are exchanged without a temporary.
ResourceOwner_swap_NoTemporary(s, this, other) ==
    LET o1 == [s.o EXCEPT ![this].m_id = s.o[other].m_id]
        o2 == [o1 EXCEPT ![other].m_id = o1[this].m_id]
        o3 == [o2 EXCEPT ![this].m_name = o2[other].m_name]
        o4 == [o3 EXCEPT ![other].m_name = o3[this].m_name]
        o5 == [o4 EXCEPT ![this].m_resource = o4[other].m_resource, ![other].m_resource = o4[this].m_resource]
    IN  [o |-> o5, h |-> s.h]

\* Member swap: three std::swap calls.
ResourceOwner_swap(s, this, other) ==
    LET o1 == [s.o EXCEPT ![this].m_id = s.o[other].m_id, ![other].m_id = s.o[this].m_id]
        o2 == [o1 EXCEPT ![this].m_name = o1[other].m_name, ![other].m_name = o1[this].m_name]
        o3 == [o2 EXCEPT ![this].m_resource = o2[other].m_resource, ![other].m_resource = o2[this].m_resource]
    IN  [o |-> o3, h |-> s.h]

\* Free function swap.
swap(s, a, b) == ResourceOwner_swap(s, a, b)

\* The name a moved-from std::string may be left with: any valid string.
MovedFromNames == Names

\* ------------------------------------------------------------------ state
Cur == [o |-> owners, h |-> heap]

Becomes(t, op) == owners' = t.o /\ heap' = t.h /\ last' = op

Init ==
    /\ owners = [x \in Slots |-> NoOwner]
    /\ heap = [a \in Addrs |-> NoCell]
    /\ last = "init"
    /\ pc \in {"client", "L194"}

\* ------------------------------------------------------------- operations
\* One step per call a client can make; the client and main() below add
\* their own control flow. Pre... is what the C++ object model asks of the
\* caller (an object is constructed in storage that holds none, and used
\* while it is alive) together with the allocation bound.

\* x.resource()->set(i), as a function of the state.
SetVia(s, x, i) == [o |-> s.o, h |-> Resource_set(s.h, s.o[x].m_resource, i)]

PreConstruct(x) == ~owners[x].live /\ HasFresh(heap)

\* ResourceOwner x( id, name, new Resource(i) );
DoConstruct(x, id, name, i) ==
    /\ PreConstruct(x)
    /\ Becomes(ResourceOwner_ctor([o |-> owners, h |-> Resource_ctor(heap, i)], x, id, name, Fresh(heap)),
               "ctor")

PreConstructNull(x) == ~owners[x].live

\* ResourceOwner x( id, name, nullptr );
DoConstructNull(x, id, name) ==
    /\ PreConstructNull(x)
    /\ Becomes(ResourceOwner_ctor(Cur, x, id, name, Null), "ctor")

PreDestroy(x) == owners[x].live

\* x goes out of scope.
DoDestroy(x) ==
    /\ PreDestroy(x)
    /\ Becomes(ResourceOwner_dtor(Cur, x), "dtor")

PreCopyConstruct(x, other) ==
    /\ ~owners[x].live /\ owners[other].live
    /\ owners[other].m_resource # Null => HasFresh(heap)

\* ResourceOwner x( other );
DoCopyConstruct(x, other) ==
    /\ PreCopyConstruct(x, other)
    /\ Becomes(ResourceOwner_copy_ctor(Cur, x, other), "copy_ctor")

PreCopyConstructFail(x, other) ==
    /\ ~owners[x].live /\ owners[other].live
    /\ owners[other].m_resource # Null

\* ResourceOwner x( other ); where the allocation throws: no object is constructed.
DoCopyConstructFail(x, other) ==
    /\ PreCopyConstructFail(x, other)
    /\ Becomes(Cur, "copy_ctor_fail")

\* this = other; reaches the new-expression.
Allocates(this, other) ==
    this # other /\ owners[this].m_resource = Null /\ owners[other].m_resource # Null

PreCopyAssign(this, other) ==
    /\ owners[this].live /\ owners[other].live
    /\ Allocates(this, other) => HasFresh(heap)

\* this = other;
DoCopyAssign(this, other) ==
    /\ PreCopyAssign(this, other)
    /\ Becomes(ResourceOwner_copy_assign(Cur, this, other, TRUE), "copy_assign")

PreCopyAssignFail(this, other) ==
    /\ owners[this].live /\ owners[other].live
    /\ Allocates(this, other)

\* this = other; where the allocation of the "allocate new" branch throws.
DoCopyAssignFail(this, other) ==
    /\ PreCopyAssignFail(this, other)
    /\ Becomes(ResourceOwner_copy_assign(Cur, this, other, FALSE), "copy_assign_fail")

PreMoveConstruct(x, other) == ~owners[x].live /\ owners[other].live

\* ResourceOwner x( std::move(other) );
DoMoveConstruct(x, other) ==
    /\ PreMoveConstruct(x, other)
    /\ \E n \in MovedFromNames : Becomes(ResourceOwner_move_ctor(Cur, x, other, n), "move_ctor")

PreMoveAssign(this, other) == owners[this].live /\ owners[other].live

\* this = std::move(other);
DoMoveAssign(this, other) ==
    /\ PreMoveAssign(this, other)
    /\ \E n \in MovedFromNames : Becomes(ResourceOwner_move_assign(Cur, this, other, n), "move_assign")

PreSwap(a, b) == owners[a].live /\ owners[b].live

\* this.swap( other );
DoMemberSwap(this, other) ==
    /\ PreSwap(this, other)
    /\ Becomes(ResourceOwner_swap(Cur, this, other), "swap")

\* swap( a, b ); the operation that acts is the member swap it calls.
DoFreeSwap(a, b) ==
    /\ PreSwap(a, b)
    /\ Becomes(swap(Cur, a, b), "swap")

PreSet(x) == owners[x].live /\ owners[x].m_resource # Null

\* x.resource()->set(i);
DoSet(x, i) ==
    /\ PreSet(x)
    /\ Becomes(SetVia(Cur, x, i), "set")

\* ------------------------------------------------------- arbitrary client
InClient == pc = "client" /\ UNCHANGED pc

Construct(x, id, name, i) == InClient /\ DoConstruct(x, id, name, i)
ConstructNull(x, id, name) == InClient /\ DoConstructNull(x, id, name)
Destroy(x) == InClient /\ DoDestroy(x)
CopyConstruct(x, other) == InClient /\ DoCopyConstruct(x, other)
CopyConstructFail(x, other) == InClient /\ DoCopyConstructFail(x, other)
CopyAssign(this, other) == InClient /\ DoCopyAssign(this, other)
CopyAssignFail(this, other) == InClient /\ DoCopyAssignFail(this, other)
MoveConstruct(x, other) == InClient /\ DoMoveConstruct(x, other)
MoveAssign(this, other) == InClient /\ DoMoveAssign(this, other)
MemberSwap(this, other) == InClient /\ DoMemberSwap(this, other)
FreeSwap(a, b) == InClient /\ DoFreeSwap(a, b)
Set(x, i) == InClient /\ DoSet(x, i)

Client ==
    \/ \E x \in ClientSlots, id \in Ids, name \in Names, i \in Values : Construct(x, id, name, i)
    \/ \E x \in ClientSlots, id \in Ids, name \in Names : ConstructNull(x, id, name)
    \/ \E x \in ClientSlots : Destroy(x)
    \/ \E x, y \in ClientSlots : CopyConstruct(x, y)
    \/ \E x, y \in ClientSlots : CopyConstructFail(x, y)
    \/ \E x, y \in ClientSlots : CopyAssign(x, y)
    \/ \E x, y \in ClientSlots : CopyAssignFail(x, y)
    \/ \E x, y \in ClientSlots : MoveConstruct(x, y)
    \/ \E x, y \in ClientSlots : MoveAssign(x, y)
    \/ \E x, y \in ClientSlots : MemberSwap(x, y)
    \/ \E x, y \in ClientSlots : FreeSwap(x, y)
    \/ \E x \in ClientSlots, i \in Values : Set(x, i)

\* ----------------------------------------------------------------- main()
\* owner1, owner2 and owner3 are slots 1, 2 and 3.
At(from, to) == pc = from /\ pc' = to

Main194 == At("L194", "L199") /\ DoConstruct(1, 1, "id1", 101)
Main199 == At("L199", "L203") /\ DoCopyConstruct(2, 1)
Main203 == At("L203", "L204") /\ DoSet(1, 202)
Main204 == At("L204", "L208") /\ DoCopyAssign(2, 1)
Main208 == At("L208", "L209") /\ DoSet(1, 303)
Main209 == At("L209", "L213") /\ DoMoveConstruct(3, 1)
Main213 == At("L213", "L214") /\ DoSet(2, 404)
Main214 == At("L214", "L218") /\ DoMoveAssign(1, 2)
\* return: the owners are destroyed in reverse order of construction.
Main218_owner3 == At("L218", "L218_2") /\ DoDestroy(3)
Main218_owner2 == At("L218_2", "L218_1") /\ DoDestroy(2)
Main218_owner1 == At("L218_1", "done") /\ DoDestroy(1)

Main ==
    \/ Main194 \/ Main199 \/ Main203 \/ Main204 \/ Main208 \/ Main209
    \/ Main213 \/ Main214 \/ Main218_owner3 \/ Main218_owner2 \/ Main218_owner1

Next == Client \/ Main

Spec == Init /\ [][Next]_vars

\* The class under an arbitrary client alone: every sequence of calls of its
\* public interface, main() left out. It reaches the cases main() never
\* does (swap, assignment from or to an owner without a Resource,
\* assignment of an owner to itself).
ClientInit == Init /\ pc = "client"

ClientSpec == ClientInit /\ [][Client]_vars

\* ================================================================= claims
\* A claim about one operation is stated of every reachable state in which
\* the operation can be called: the state the operation then produces
\* satisfies the postcondition. The witnesses are states an actual call of
\* the operation has produced.

LiveOwners == {x \in Slots : owners[x].live}

Holders(o, a) == {x \in Slots : o[x].live /\ o[x].m_resource = a}

\* No live Resource is out of every live owner's reach.
NoLeak(s) == \A a \in Addrs : IsLive(s.h, a) => Holders(s.o, a) # {}

\* The value of the Resource owner x holds in state s.
ValueOf(s, x) == Resource_get(s.h, s.o[x].m_resource)

\* C1: no Resource is ever released twice, and once every ResourceOwner that
\* was created has been destroyed, every Resource that was allocated (handed
\* to a constructor or made by a deep copy) has been released exactly once.
C1_ReleasedExactlyOnce ==
    /\ \A a \in Addrs : heap[a].rel <= 1
    /\ LiveOwners = {} => \A a \in Addrs : heap[a].alloc => heap[a].rel = 1

\* The client has destroyed its last owner; two Resources were allocated and
\* each has been released once.
C1_Witness ==
    /\ LiveOwners = {} /\ last = "dtor" /\ pc = "client"
    /\ \E a, b \in Addrs : /\ a # b
                           /\ heap[a].alloc /\ heap[a].rel = 1
                           /\ heap[b].alloc /\ heap[b].rel = 1

\* C2: exclusive ownership holds in every state between operations: no two
\* live owners hold the same non-null pointer, every non-null pointer of a
\* live owner points to a live Resource, and every live Resource is held by
\* exactly one live owner.
C2_ExclusiveOwnership ==
    /\ \A x, y \in Slots :
         (x # y /\ owners[x].live /\ owners[y].live /\ owners[x].m_resource # Null)
            => owners[x].m_resource # owners[y].m_resource
    /\ \A x \in Slots :
         (owners[x].live /\ owners[x].m_resource # Null) => IsLive(heap, owners[x].m_resource)
    /\ \A a \in Addrs : IsLive(heap, a) => Cardinality(Holders(owners, a)) = 1

C2_Witness ==
    /\ last = "copy_assign" /\ pc = "client"
    /\ \E x, y \in Slots : /\ x # y /\ owners[x].live /\ owners[y].live
                           /\ IsLive(heap, owners[x].m_resource)
                           /\ IsLive(heap, owners[y].m_resource)

\* t is a state in which b has just been made a copy of a, whose Resource
\* held v: both hold distinct live Resources of value v, and set through
\* either one leaves the other's pointer and value as they were.
Independent(t, a, b, v) ==
    /\ t.o[a].m_resource # Null /\ t.o[b].m_resource # Null
    /\ t.o[a].m_resource # t.o[b].m_resource
    /\ IsLive(t.h, t.o[a].m_resource) /\ IsLive(t.h, t.o[b].m_resource)
    /\ ValueOf(t, a) = v /\ ValueOf(t, b) = v
    /\ \A i \in Values :
         /\ ValueOf(SetVia(t, b, i), a) = v /\ ValueOf(SetVia(t, b, i), b) = i
         /\ ValueOf(SetVia(t, a, i), b) = v /\ ValueOf(SetVia(t, a, i), a) = i

\* C3: deep-copy independence. For an owner a whose Resource holds v, once b
\* is made a copy of a by copy construction or by copy assignment b = a
\* (whether b owned a Resource before or not), a and b hold distinct
\* Resources of value v, set on b's leaves a's at v and set on a's leaves
\* b's at v.
C3_DeepCopyIndependence ==
    \A a, b \in Slots :
      (a # b /\ owners[a].live /\ owners[a].m_resource # Null)
        => /\ PreCopyConstruct(b, a)
                => Independent(ResourceOwner_copy_ctor(Cur, b, a), a, b, ValueOf(Cur, a))
           /\ PreCopyAssign(b, a)
                => Independent(ResourceOwner_copy_assign(Cur, b, a, TRUE), a, b, ValueOf(Cur, a))

\* main() at line 204: owner2 is a copy of owner1, owner1's Resource has been
\* set to 202 and owner2's still holds 101.
C3_Witness ==
    /\ pc = "L204" /\ last = "set"
    /\ ValueOf(Cur, 1) = 202
    /\ ValueOf(Cur, 2) = 101

\* C4: move construction of b from an owner a holding a non-null pointer:
\* b gets a's id and a's pointer itself, the free store is untouched (same
\* Resource, same value, nothing allocated, nothing released), a keeps its
\* id and a's pointer is null.
C4_MoveConstruct ==
    \A a, b \in Slots, n \in MovedFromNames :
      (PreMoveConstruct(b, a) /\ owners[a].m_resource # Null)
        => LET t == ResourceOwner_move_ctor(Cur, b, a, n)
           IN  /\ t.o[b].live /\ t.o[a].live
               /\ t.o[b].m_id = owners[a].m_id
               /\ t.o[a].m_id = owners[a].m_id
               /\ t.o[b].m_resource = owners[a].m_resource
               /\ t.o[a].m_resource = Null
               /\ t.h = heap

C4_Witness ==
    /\ last = "move_ctor" /\ pc = "client"
    /\ \E x, y \in Slots : /\ x # y /\ owners[x].live /\ owners[y].live
                           /\ IsLive(heap, owners[x].m_resource)
                           /\ owners[y].m_resource = Null
                           /\ owners[x].m_id = owners[y].m_id

\* C5: move assignment x = move(y) between distinct owners, whatever each of
\* them owns: the Resource x owned (if any) goes from live to released once,
\* x gets y's id and y's pointer (null or not), y's pointer is null, nothing
\* is allocated and no other cell of the free store changes.
C5_MoveAssign ==
    \A x, y \in Slots, n \in MovedFromNames :
      (PreMoveAssign(x, y) /\ x # y)
        => LET t == ResourceOwner_move_assign(Cur, x, y, n)
           IN  /\ owners[x].m_resource # Null
                    => /\ heap[owners[x].m_resource].rel = 0
                       /\ t.h[owners[x].m_resource].rel = 1
               /\ t.o[x].live /\ t.o[y].live
               /\ t.o[x].m_id = owners[y].m_id
               /\ t.o[x].m_resource = owners[y].m_resource
               /\ t.o[y].m_resource = Null
               /\ \A a \in Addrs : t.h[a].alloc = heap[a].alloc
               /\ \A a \in Addrs \ {owners[x].m_resource} : t.h[a] = heap[a]

\* x = move(y) where both owned a Resource: x's old one is released, x holds
\* y's, y holds none.
C5_Witness ==
    /\ last = "move_assign" /\ pc = "client"
    /\ \E x, y \in Slots : /\ x # y /\ owners[x].live /\ owners[y].live
                           /\ IsLive(heap, owners[x].m_resource)
                           /\ owners[y].m_resource = Null
    /\ \E a \in Addrs : heap[a].rel = 1

\* C6: self copy-assignment x = x changes nothing: id, name, pointer, every
\* Resource value, and nothing is allocated or released.
C6_SelfCopyAssign ==
    \A x \in Slots : PreCopyAssign(x, x) => ResourceOwner_copy_assign(Cur, x, x, TRUE) = Cur

\* Only one owner is live, so the copy assignment just made was x = x; the
\* owner holds a Resource.
C6_Witness ==
    /\ last = "copy_assign" /\ pc = "client"
    /\ \E x \in Slots : LiveOwners = {x} /\ IsLive(heap, owners[x].m_resource)

\* C7: self move-assignment x = move(x) leaves x alive with a pointer that is
\* null or points to a live Resource, leaves no live Resource out of reach,
\* and destroying x afterwards releases no Resource a second time.
C7_SelfMoveAssign ==
    \A x \in Slots, n \in MovedFromNames :
      PreMoveAssign(x, x)
        => LET t == ResourceOwner_move_assign(Cur, x, x, n)
           IN  /\ t.o[x].live
               /\ t.o[x].m_resource = Null \/ IsLive(t.h, t.o[x].m_resource)
               /\ NoLeak(Cur) => NoLeak(t)
               /\ \A a \in Addrs : t.h[a].rel <= 1
               /\ \A a \in Addrs : ResourceOwner_dtor(t, x).h[a].rel <= 1

\* Only one owner is live, so the move assignment just made was x = move(x);
\* the Resource it held has been released.
C7_Witness ==
    /\ last = "move_assign" /\ pc = "client"
    /\ \E x \in Slots : LiveOwners = {x} /\ owners[x].m_resource = Null
    /\ \E a \in Addrs : heap[a].alloc /\ heap[a].rel = 1

\* C8: when the allocation fails in x = y (x owns no Resource, y owns one),
\* x is as it was before the assignment (id, name, pointer) and nothing has
\* been released.
C8_CopyAssignStrong ==
    [][ \A x, y \in Slots :
          (last' = "copy_assign_fail" /\ DoCopyAssignFail(x, y))
            => (owners'[x] = owners[x] /\ heap' = heap) ]_vars

\* C9: swap(x, y) followed by swap(x, y) restores the id, name and pointer
\* of both owners (and of every other owner, and the free store), for the
\* member swap, the free swap, and x = y.
C9_SwapTwice ==
    \A x, y \in Slots :
      PreSwap(x, y)
        => /\ ResourceOwner_swap(ResourceOwner_swap(Cur, x, y), x, y) = Cur
           /\ swap(swap(Cur, x, y), x, y) = Cur

\* A swap of an owner holding a Resource with an owner holding none, with
\* different ids and names.
C9_Witness ==
    /\ last = "swap" /\ pc = "client"
    /\ \E x, y \in Slots : /\ x # y /\ owners[x].live /\ owners[y].live
                           /\ owners[x].m_resource # Null /\ owners[y].m_resource = Null
                           /\ owners[x].m_id # owners[y].m_id
                           /\ owners[x].m_name # owners[y].m_name

\* C10: main() step by step. After line 194 owner1 is {1, "id1", 101}; after
\* 199 owner2 holds 101 in another allocation; the assignment of line 204
\* keeps owner2's pointer and after it owner2 holds 202; after 209 owner3
\* holds 303 and owner1's pointer is null; after 214 owner1 holds 404 and
\* owner2's pointer is null; after the three destructors each of the two
\* allocations has been released exactly once.
C10_Driver ==
    /\ pc = "L199" => /\ owners[1].live /\ owners[1].m_id = 1 /\ owners[1].m_name = "id1"
                      /\ IsLive(heap, owners[1].m_resource)
                      /\ ValueOf(Cur, 1) = 101
    /\ pc = "L203" => /\ owners[2].live
                      /\ IsLive(heap, owners[2].m_resource)
                      /\ ValueOf(Cur, 2) = 101
                      /\ owners[2].m_resource # owners[1].m_resource
    /\ pc = "L204" => /\ ValueOf(Cur, 1) = 202
                      /\ ResourceOwner_copy_assign(Cur, 2, 1, TRUE).o[2].m_resource = owners[2].m_resource
    /\ pc = "L208" => /\ IsLive(heap, owners[2].m_resource)
                      /\ ValueOf(Cur, 2) = 202
    /\ pc = "L213" => /\ owners[3].live
                      /\ IsLive(heap, owners[3].m_resource)
                      /\ ValueOf(Cur, 3) = 303
                      /\ owners[1].live /\ owners[1].m_resource = Null
    /\ pc = "L218" => /\ IsLive(heap, owners[1].m_resource)
                      /\ ValueOf(Cur, 1) = 404
                      /\ owners[2].live /\ owners[2].m_resource = Null
    /\ pc = "done" => /\ LiveOwners = {}
                      /\ Cardinality({a \in Addrs : heap[a].alloc}) = 2
                      /\ \A a \in Addrs : heap[a].alloc => heap[a].rel = 1

C10_Witness ==
    /\ pc = "done" /\ last = "dtor"
    /\ Cardinality({a \in Addrs : heap[a].alloc /\ heap[a].rel = 1}) = 2

\* Exclusive ownership, as a predicate of a state s: no two owners hold the
\* same Resource, and a pointer that is not null points to a live Resource.
Exclusive(s) ==
    /\ \A x, y \in Slots :
         (x # y /\ s.o[x].live /\ s.o[y].live /\ s.o[x].m_resource # Null)
            => s.o[x].m_resource # s.o[y].m_resource
    /\ \A x \in Slots :
         (s.o[x].live /\ s.o[x].m_resource # Null) => IsLive(s.h, s.o[x].m_resource)

\* What a move leaves of its donor d in the state t: an owner that is alive
\* and holds no Resource (its name is any string).
MovedFrom(t, d) == t.o[d].live /\ t.o[d].m_resource = Null

\* d receives src's Resource value in u, and ownership stays exclusive.
Receives(u, d, src) ==
    /\ IsLive(u.h, u.o[d].m_resource)
    /\ ValueOf(u, d) = ValueOf(Cur, src)
    /\ Exclusive(u)

\* C11: an owner that has been the donor of a move construction or of a move
\* assignment stays usable. Every move leaves its donor alive without a
\* Resource; and of every owner that is alive without a Resource, in every
\* reachable state (the states moves lead to among them): (a) its destructor
\* leaves the free store as it is; (b) a copy constructed from it has a null
\* pointer and allocates nothing; (c) copy or move assignment into it from an
\* owner that holds a Resource gives it a live Resource with the source's
\* value. Exclusive ownership holds after each of them.
C11_MovedFromUsable ==
    /\ \A a, b \in Slots, n \in MovedFromNames :
         /\ PreMoveConstruct(b, a) => MovedFrom(ResourceOwner_move_ctor(Cur, b, a, n), a)
         /\ PreMoveAssign(b, a) => MovedFrom(ResourceOwner_move_assign(Cur, b, a, n), a)
    /\ \A d \in Slots :
         MovedFrom(Cur, d)
           => /\ Exclusive(Cur)
              /\ ResourceOwner_dtor(Cur, d).h = heap
              /\ Exclusive(ResourceOwner_dtor(Cur, d))
              /\ \A z \in Slots :
                   PreCopyConstruct(z, d)
                     => LET u == ResourceOwner_copy_ctor(Cur, z, d)
                        IN  /\ u.o[z].live /\ u.o[z].m_resource = Null
                            /\ u.h = heap
                            /\ Exclusive(u)
              /\ \A src \in Slots \ {d} :
                   (owners[src].live /\ owners[src].m_resource # Null)
                     => /\ PreCopyAssign(d, src)
                             => Receives(ResourceOwner_copy_assign(Cur, d, src, TRUE), d, src)
                        /\ \A n \in MovedFromNames :
                             Receives(ResourceOwner_move_assign(Cur, d, src, n), d, src)

\* main() after line 214: owner1 was moved from at line 209 and has then been
\* move-assigned owner2's Resource, which held 404.
C11_Witness ==
    /\ pc = "L218" /\ last = "move_assign"
    /\ IsLive(heap, owners[1].m_resource)
    /\ ValueOf(Cur, 1) = 404

\* ------------------------------------------- the alternative solutions
\* The storage of the local object tmp of the copy-and-swap solutions.
Tmp == 0

\* Entering a function that declares tmp: its storage holds no object yet.
WithTmp(s) ==
    [o |-> [x \in Slots \cup {Tmp} |-> IF x = Tmp THEN NoOwner ELSE s.o[x]], h |-> s.h]

\* Leaving the function: tmp's storage is gone.
WithoutTmp(s) == [o |-> [x \in Slots |-> s.o[x]], h |-> s.h]

\* Move assignment, Solution 2: swap( other ).
ResourceOwner_move_assign_swap(s, this, other) == ResourceOwner_swap(s, this, other)

\* Move assignment, Solution 3: move-construct tmp from other, swap( tmp ),
\* and tmp is destroyed at the end of the function.
ResourceOwner_move_assign_copy_and_swap(s, this, other, n) ==
    LET s1 == ResourceOwner_move_ctor(WithTmp(s), Tmp, other, n)
        s2 == ResourceOwner_swap(s1, this, Tmp)
        s3 == ResourceOwner_dtor(s2, Tmp)
    IN  WithoutTmp(s3)

\* What a caller can observe of owner x: its id, whether it holds a Resource,
\* and that Resource's value.
Observable(s, x) ==
    <<s.o[x].m_id, s.o[x].m_resource # Null,
      IF s.o[x].m_resource # Null THEN ValueOf(s, x) ELSE 0>>

\* C12 (as amended): for every two distinct owners this and other, the three
\* move assignments leave this with the same id, the same ownership and the
\* same Resource value; the Resource this held before is released at the end
\* of Solutions 1 and 3 and is alive in other's hands at the end of
\* Solution 2.
C12_MoveAssignSolutionsAgree ==
    \A this, other \in Slots, n \in MovedFromNames :
      (this # other /\ PreMoveAssign(this, other))
        => \A t1 \in {ResourceOwner_move_assign(Cur, this, other, n)},
              t2 \in {ResourceOwner_move_assign_swap(Cur, this, other)},
              t3 \in {ResourceOwner_move_assign_copy_and_swap(Cur, this, other, n)} :
             LET old == owners[this].m_resource
             IN  /\ Observable(t1, this) = Observable(t2, this)
                 /\ Observable(t1, this) = Observable(t3, this)
                 /\ old # Null
                      => /\ t1.h[old].rel = 1 /\ t3.h[old].rel = 1
                         /\ IsLive(t2.h, old) /\ t2.o[other].m_resource = old

\* C12 as stated, for every this and other, this = std::move(this) included:
\* the three move assignments leave this with the same id, ownership and
\* Resource value.
C12_AsStated ==
    \A this, other \in Slots, n \in MovedFromNames :
      PreMoveAssign(this, other)
        => LET t1 == ResourceOwner_move_assign(Cur, this, other, n)
               t2 == ResourceOwner_move_assign_swap(Cur, this, other)
               t3 == ResourceOwner_move_assign_copy_and_swap(Cur, this, other, n)
           IN  /\ Observable(t1, this) = Observable(t2, this)
               /\ Observable(t1, this) = Observable(t3, this)

\* A move assignment between two owners that both held a Resource has run:
\* this holds other's, other holds none, and this's old one is released.
C12_Witness ==
    /\ last = "move_assign" /\ pc = "client"
    /\ \E x, y \in LiveOwners :
         /\ x # y
         /\ IsLive(heap, owners[x].m_resource)
         /\ owners[y].m_resource = Null
         /\ \E a \in Addrs : a # owners[x].m_resource /\ heap[a].alloc /\ heap[a].rel = 1

\* Copy assignment, Solution 2 (copy-and-swap): copy-construct tmp from
\* other, swap( tmp ), and tmp is destroyed at the end of the function.
ResourceOwner_copy_assign_copy_and_swap(s, this, other) ==
    LET s1 == ResourceOwner_copy_ctor(WithTmp(s), Tmp, other)
        s2 == ResourceOwner_swap(s1, this, Tmp)
        s3 == ResourceOwner_dtor(s2, Tmp)
    IN  WithoutTmp(s3)

\* The same state with room in the free store for one more Resource than the
\* client's sequences may allocate: the copy that tmp holds for a while.
Spare == MaxAlloc + 1

WithSpare(s) ==
    [o |-> s.o, h |-> [a \in Addrs \cup {Spare} |-> IF a \in Addrs THEN s.h[a] ELSE NoCell]]

\* The number of live Resources.
LiveAllocations(h) == Cardinality({a \in DOMAIN h : IsLive(h, a)})

\* In t the source of the assignment is observably as it was in u, and is
\* the very Resource it was when it is another object than this.
SourceAsBefore(u, t, this, other) ==
    /\ t.o[other].live
    /\ t.o[other].m_name = u.o[other].m_name
    /\ Observable(t, other) = Observable(u, other)
    /\ this # other => t.o[other].m_resource = u.o[other].m_resource

\* C13: for every this and other (the same object included), copy-and-swap
\* and the manual copy assignment leave this with the same id, name,
\* ownership and Resource value, leave other with the id, name, ownership and
\* value it had (and, when it is another object, the Resource it had), and
\* leave the same number of live Resources.
C13_CopyAndSwapAgrees ==
    \A this, other \in Slots :
      (owners[this].live /\ owners[other].live)
        => \A u \in {WithSpare(Cur)} :
           \A t1 \in {ResourceOwner_copy_assign(u, this, other, TRUE)},
              t2 \in {ResourceOwner_copy_assign_copy_and_swap(u, this, other)} :
               /\ t1.o[this].m_id = t2.o[this].m_id
               /\ t1.o[this].m_name = t2.o[this].m_name
               /\ Observable(t1, this) = Observable(t2, this)
               /\ SourceAsBefore(u, t1, this, other)
               /\ SourceAsBefore(u, t2, this, other)
               /\ LiveAllocations(t1.h) = LiveAllocations(t2.h)

\* A copy assignment between two owners that hold a Resource each has run.
C13_Witness ==
    /\ last = "copy_assign"
    /\ \E x, y \in LiveOwners :
         /\ x # y
         /\ IsLive(heap, owners[x].m_resource) /\ IsLive(heap, owners[y].m_resource)
         /\ owners[x].m_resource # owners[y].m_resource
         /\ ValueOf(Cur, x) = ValueOf(Cur, y)
         /\ owners[x].m_id = owners[y].m_id /\ owners[x].m_name = owners[y].m_name

\* ------------------------------------------- copy assignment, case by case
\* Between h and h2 no cell other than those of except is allocated or
\* released.
SameCells(h, h2, except) ==
    \A a \in Addrs \ except : h2[a].alloc = h[a].alloc /\ h2[a].rel = h[a].rel

\* this has taken other's id and name.
TakesIdAndName(t, this, other) ==
    /\ t.o[this].m_id = owners[other].m_id
    /\ t.o[this].m_name = owners[other].m_name

\* C14: copy assignment between two distinct owners that both hold a
\* Resource works in place: this keeps the pointer it had, its Resource takes
\* other's value, this takes other's id and name, and no cell of the free
\* store is allocated or released.
C14_CopyAssignInPlace ==
    \A this, other \in Slots :
      ( /\ this # other /\ PreCopyAssign(this, other)
        /\ owners[this].m_resource # Null /\ owners[other].m_resource # Null )
        => LET t == ResourceOwner_copy_assign(Cur, this, other, TRUE)
           IN  /\ t.o[this].m_resource = owners[this].m_resource
               /\ IsLive(t.h, t.o[this].m_resource)
               /\ ValueOf(t, this) = ValueOf(Cur, other)
               /\ TakesIdAndName(t, this, other)
               /\ SameCells(heap, t.h, {})

\* main() after line 204: owner2 = owner1 has given owner2's own Resource
\* the value 202 that owner1's Resource was set to at line 203.
C14_Witness ==
    /\ pc = "L208" /\ last = "copy_assign"
    /\ IsLive(heap, owners[1].m_resource) /\ IsLive(heap, owners[2].m_resource)
    /\ owners[1].m_resource # owners[2].m_resource
    /\ ValueOf(Cur, 2) = 202 /\ ValueOf(Cur, 1) = 202
    /\ \A a \in Addrs : heap[a].rel = 0

\* C15: copy assignment to an owner that holds a Resource from one that holds
\* none releases this's Resource exactly once, resets this's pointer, gives
\* this other's id and name and allocates nothing; when neither holds a
\* Resource, both pointers stay null and nothing is allocated or released.
C15_CopyAssignFromResourceLess ==
    \A this, other \in Slots :
      (PreCopyAssign(this, other) /\ owners[other].m_resource = Null)
        => LET t   == ResourceOwner_copy_assign(Cur, this, other, TRUE)
               old == owners[this].m_resource
           IN  /\ t.o[this].m_resource = Null /\ t.o[other].m_resource = Null
               /\ TakesIdAndName(t, this, other)
               /\ old # Null
                    => /\ heap[old].rel = 0 /\ t.h[old].rel = 1 /\ t.h[old].alloc
                       /\ SameCells(heap, t.h, {old})
               /\ old = Null => SameCells(heap, t.h, {})

\* A copy assignment from an owner without a Resource has run: neither owner
\* holds one, they agree on id and name, and a Resource has been released.
C15_Witness ==
    /\ last = "copy_assign" /\ pc = "client"
    /\ \E x, y \in LiveOwners :
         /\ x # y
         /\ owners[x].m_resource = Null /\ owners[y].m_resource = Null
         /\ owners[x].m_id = owners[y].m_id /\ owners[x].m_name = owners[y].m_name
         /\ \E a \in Addrs : heap[a].alloc /\ heap[a].rel = 1

\* C16: copy assignment to an owner that holds no Resource from one that
\* holds one makes exactly one allocation; this's pointer is that new cell,
\* distinct from other's, holding other's value; nothing is released; other's
\* pointer and value are as before.
C16_CopyAssignAllocates ==
    \A this, other \in Slots :
      ( /\ PreCopyAssign(this, other)
        /\ owners[this].m_resource = Null /\ owners[other].m_resource # Null )
        => LET t == ResourceOwner_copy_assign(Cur, this, other, TRUE)
               new == t.o[this].m_resource
           IN  /\ new # Null /\ ~heap[new].alloc /\ IsLive(t.h, new)
               /\ new # owners[other].m_resource
               /\ SameCells(heap, t.h, {new})
               /\ ValueOf(t, this) = ValueOf(Cur, other)
               /\ t.o[other] = owners[other]
               /\ IsLive(t.h, t.o[other].m_resource)
               /\ ValueOf(t, other) = ValueOf(Cur, other)

\* A copy assignment has run after which two owners hold a Resource each,
\* with equal values, while no Resource was ever released: where an
\* assignment to an owner that held none leads.
C16_Witness ==
    /\ last = "copy_assign" /\ pc = "client"
    /\ \E x, y \in LiveOwners :
         /\ x # y
         /\ IsLive(heap, owners[x].m_resource) /\ IsLive(heap, owners[y].m_resource)
         /\ owners[x].m_resource # owners[y].m_resource
         /\ ValueOf(Cur, x) = ValueOf(Cur, y)
    /\ \A a \in Addrs : heap[a].rel = 0

\* C17: the copy constructor gives the new owner other's id and name; if
\* other holds a Resource, the new owner's pointer is the one cell newly
\* allocated, distinct from other's and holding other's value; if other
\* holds none, the new owner's pointer is null and nothing is allocated; in
\* both cases nothing is released and other's id, name, pointer and value
\* are as before.
C17_CopyConstruct ==
    \A this, other \in Slots :
      PreCopyConstruct(this, other)
        => LET t == ResourceOwner_copy_ctor(Cur, this, other)
               new == t.o[this].m_resource
           IN  /\ t.o[this].live
               /\ TakesIdAndName(t, this, other)
               /\ owners[other].m_resource # Null
                    => /\ new # Null /\ ~heap[new].alloc /\ IsLive(t.h, new)
                       /\ new # owners[other].m_resource
                       /\ SameCells(heap, t.h, {new})
                       /\ ValueOf(t, this) = ValueOf(Cur, other)
                       /\ IsLive(t.h, t.o[other].m_resource)
                       /\ ValueOf(t, other) = ValueOf(Cur, other)
               /\ owners[other].m_resource = Null
                    => new = Null /\ t.h = heap
               /\ t.o[other] = owners[other]

\* main() after line 199: owner2 is a copy of owner1 with a Resource of its
\* own that holds 101.
C17_Witness ==
    /\ pc = "L203" /\ last = "copy_ctor"
    /\ owners[2].m_id = owners[1].m_id /\ owners[2].m_name = owners[1].m_name
    /\ IsLive(heap, owners[1].m_resource) /\ IsLive(heap, owners[2].m_resource)
    /\ owners[1].m_resource # owners[2].m_resource
    /\ ValueOf(Cur, 1) = 101 /\ ValueOf(Cur, 2) = 101

\* t is s with the id, name and pointer of a and b exchanged and nothing
\* else changed: the free store and every other owner are as in s.
Exchanged(s, t, a, b) ==
    /\ t.o[a] = [s.o[b] EXCEPT !.live = s.o[a].live]
    /\ t.o[b] = [s.o[a] EXCEPT !.live = s.o[b].live]
    /\ \A z \in Slots \ {a, b} : t.o[z] = s.o[z]
    /\ t.h = s.h

\* C18: swap, the member function and the free function alike, exchanges the
\* id, name and pointer of the two owners and changes nothing else: the free
\* store (the live Resources, their values, what is allocated and what is
\* released) and every other owner are as before.
C18_SwapExchanges ==
    \A a, b \in Slots :
      PreSwap(a, b)
        => /\ Exchanged(Cur, ResourceOwner_swap(Cur, a, b), a, b)
           /\ Exchanged(Cur, swap(Cur, a, b), a, b)

\* A swap of two owners that hold a Resource each, with different ids, names
\* and values.
C18_Witness ==
    /\ last = "swap" /\ pc = "client"
    /\ \E x, y \in LiveOwners :
         /\ IsLive(heap, owners[x].m_resource) /\ IsLive(heap, owners[y].m_resource)
         /\ owners[x].m_id # owners[y].m_id
         /\ owners[x].m_name # owners[y].m_name
         /\ ValueOf(Cur, x) # ValueOf(Cur, y)

\* C19: the move assignment as written, applied to one object (this =
\* std::move(this)): if it holds a Resource, that Resource is released (once)
\* and the pointer ends null while the id is as before; if it holds none, the
\* pointer stays null and nothing is released. Nothing is allocated and no
\* other cell changes.
C19_SelfMoveAssignLosesResource ==
    \A this \in Slots, n \in MovedFromNames :
      PreMoveAssign(this, this)
        => LET t   == ResourceOwner_move_assign(Cur, this, this, n)
               old == owners[this].m_resource
           IN  /\ t.o[this].live
               /\ t.o[this].m_resource = Null
               /\ t.o[this].m_id = owners[this].m_id
               /\ old # Null
                    => /\ heap[old].rel = 0 /\ t.h[old].rel = 1 /\ t.h[old].alloc
                       /\ SameCells(heap, t.h, {old})
               /\ old = Null => SameCells(heap, t.h, {})

\* The one owner alive has been move-assigned to itself: it has its id and
\* no Resource, and the one Resource ever allocated is released.
C19_Witness ==
    /\ last = "move_assign" /\ pc = "client"
    /\ \E x \in Slots :
         /\ LiveOwners = {x}
         /\ owners[x].m_resource = Null /\ owners[x].m_id \in Ids
    /\ \E a \in Addrs :
         /\ heap[a].alloc /\ heap[a].rel = 1
         /\ \A b \in Addrs \ {a} : ~heap[b].alloc

\* -------------------------------------------------- how a pointer gets null
\* In the state t an operation leads to, owner z is still alive and has lost
\* the Resource it held.
Nulled(t, z) ==
    /\ owners[z].live /\ t.o[z].live
    /\ owners[z].m_resource # Null /\ t.o[z].m_resource = Null

\* Every owner of S that is alive is still alive in t, with the pointer it had.
AllKept(t, S) ==
    \A z \in S : owners[z].live => (t.o[z].live /\ t.o[z].m_resource = owners[z].m_resource)

\* t has no more live Resources than the current state.
NoMoreLive(t) == LiveAllocations(t.h) <= LiveAllocations(heap)

\* In the state t a swap of a and b leads to, a pointer has become null only
\* where the partner's was null.
SwapNulls(t, a, b) ==
    /\ AllKept(t, Slots \ {a, b})
    /\ Nulled(t, a) => owners[b].m_resource = Null
    /\ Nulled(t, b) => owners[a].m_resource = Null
    /\ NoMoreLive(t)

\* C20: whatever operation is called in a reachable state, an owner that
\* stays alive loses its pointer only as the donor of a move construction or
\* move assignment (a self move assignment included), as the target of a
\* copy assignment or move assignment from an owner without a Resource, or
\* in a swap with an owner without a Resource. Construction, destruction of
\* another owner, copy construction (from it or not), copy assignment (for
\* every owner but the target, so for the source), and Resource::set through
\* resource() leave every pointer as it is. Move construction, move
\* assignment and swap never increase the number of live Resources.
C20_NullOnlyThrough ==
    /\ \A x \in Slots :
         PreConstruct(x)
           => \A id \in Ids, name \in Names, i \in Values :
                AllKept(ResourceOwner_ctor([o |-> owners, h |-> Resource_ctor(heap, i)],
                                           x, id, name, Fresh(heap)), Slots)
    /\ \A x \in Slots :
         PreConstructNull(x)
           => \A id \in Ids, name \in Names :
                AllKept(ResourceOwner_ctor(Cur, x, id, name, Null), Slots)
    /\ \A x \in Slots :
         PreDestroy(x) => AllKept(ResourceOwner_dtor(Cur, x), Slots \ {x})
    /\ \A x, other \in Slots :
         PreCopyConstruct(x, other) => AllKept(ResourceOwner_copy_ctor(Cur, x, other), Slots)
    /\ \A this, other \in Slots, ok \in BOOLEAN :
         (IF ok THEN PreCopyAssign(this, other) ELSE PreCopyAssignFail(this, other))
           => \A t \in {ResourceOwner_copy_assign(Cur, this, other, ok)} :
                  /\ AllKept(t, Slots \ {this})
                  /\ Nulled(t, this) => (this # other /\ owners[other].m_resource = Null)
    /\ \A x, other \in Slots, n \in MovedFromNames :
         PreMoveConstruct(x, other)
           => \A t \in {ResourceOwner_move_ctor(Cur, x, other, n)} :
                  AllKept(t, Slots \ {other}) /\ NoMoreLive(t)
    /\ \A this, other \in Slots, n \in MovedFromNames :
         PreMoveAssign(this, other)
           => \A t \in {ResourceOwner_move_assign(Cur, this, other, n)} :
                  /\ AllKept(t, Slots \ {this, other})
                  /\ Nulled(t, this) => (this = other \/ owners[other].m_resource = Null)
                  /\ NoMoreLive(t)
    /\ \A a, b \in Slots :
         PreSwap(a, b)
           => /\ SwapNulls(ResourceOwner_swap(Cur, a, b), a, b)
              /\ SwapNulls(swap(Cur, a, b), a, b)
    /\ \A x \in Slots, i \in Values :
         PreSet(x) => AllKept(SetVia(Cur, x, i), Slots)

\* A move assignment has left two owners without a Resource and a Resource
\* released: where this = std::move(other), with this holding a Resource and
\* other none, leads.
C20_Witness ==
    /\ last = "move_assign" /\ pc = "client"
    /\ \E x, y \in LiveOwners :
         /\ x # y
         /\ owners[x].m_resource = Null /\ owners[y].m_resource = Null
         /\ owners[x].m_id = owners[y].m_id
    /\ \E a \in Addrs : heap[a].alloc /\ heap[a].rel = 1

=============================================================================
